---- MODULE Spec2Model ----
(***************************************************************************)
(* bell103_demodulator: decode_file and GoertzelFilter of src/main.rs.     *)
(*                                                                         *)
(* decode_file is modelled as a sequential process whose position is pc:   *)
(*   "new"      lines 53-60   the two GoertzelFilter::new calls            *)
(*   "read"     lines 63-65   the samples are read from the WAV file       *)
(*   "alloc"    line  68      bits = Vec::with_capacity(len / N)           *)
(*   "chunks"   line  69      the next item of samples.chunks(N)           *)
(*   "process"  lines 70-71   mark.process(chunk); space.process(chunk)    *)
(*   "compare"  lines 72-77   the comparison and bits.push(bit)            *)
(*   "reset"    lines 78-79   mark.reset(); space.reset()                  *)
(*   "frames"   lines 83-93   one iteration of the loop over bits.chunks   *)
(*   "done"     lines 96-101  the message was written or printed           *)
(*   "panic"                  the thread panicked; err names the cause     *)
(*                                                                         *)
(* Numbers.  The filter works in f64, and the model computes in f64: a     *)
(* number is a sign, a 53-bit significand and an exponent, and +, -, * and *)
(* / are the exact operation followed by rounding to nearest, ties to      *)
(* even.  cos and sin are the values the program's libm returns, tabulated *)
(* for the arguments GoertzelFilter::new computes from the block sizes,    *)
(* frequencies and sampling rates listed at CosSin.                        *)
(*                                                                         *)
(* The environment.  What the input file holds, and whether opening,       *)
(* parsing, creating, writing or printing fails, is chosen by the action   *)
(* that performs the operation.  Nothing validates the command line:      *)
(* the block sizes drawn include 0, and the sampling rates drawn include   *)
(* 0.0 and NaN, which the option parser accepts and which make every       *)
(* coefficient NaN.                                                        *)
(***************************************************************************)
EXTENDS Integers, Sequences, FiniteSets, TLC

VARIABLES
  opt,      \* the parsed command line: output, sampling_rate, filter_length, origin
  samples,  \* Vec<i16> read from the file (line 65)
  mark,     \* GoertzelFilter for the mark frequency
  space,    \* GoertzelFilter for the space frequency
  ci,       \* number of chunks of samples.chunks(N) already taken
  chunk,    \* the chunk of samples the block loop is working on
  bits,     \* Vec<u8> of decided bits
  fi,       \* number of chunks of bits.chunks(10) already taken
  message,  \* String, as the sequence of its characters' code points
  out,      \* where the message went: "", "file" or "stdout"
  pc,       \* position in decode_file
  err       \* cause of the panic, "" when none

vars == <<opt, samples, mark, space, ci, chunk, bits, fi, message, out, pc, err>>

----------------------------------------------------------------------------
(* Program constants *)

ORIG_MARK_FREQUENCY == 1270
ORIG_SPACE_FREQUENCY == 1070
ANS_MARK_FREQUENCY == 2225
ANS_SPACE_FREQUENCY == 2025

\* the constants of the tests
SAMPLING_RATE == 8000
BLOCK_SIZE == 205
TARGET_FREQUENCY == 941

\* bits.chunks(10): the number of bits of a frame
FrameLen == 10

\* std::char::from_u32 accepts the scalar values: below the surrogates,
\* or above them up to char::MAX
SurrogateLo == 55296
SurrogateHi == 57343
CharMax == 1114111

----------------------------------------------------------------------------
(* Bounds of the model *)

\* largest filter_length given on the command line
MaxFilterLength == 3
\* largest number of samples in the input file
MaxSamples == 4
\* largest number of full frames of a drawn bit sequence
MaxFrames == 3
\* largest number of samples fed to one filter in pieces between two resets
MaxFed == 4

\* amplitudes of the samples drawn (i16 values)
SampleValues == {-1, 0, 1}
Min(a, b) == IF a <= b THEN a ELSE b

\* all sequences over S of length at most n
RECURSIVE SeqsUpTo(_, _)
SeqsUpTo(S, n) ==
  IF n = 0 THEN {<<>>}
  ELSE LET shorter == SeqsUpTo(S, n - 1)
       IN  shorter \cup {Append(s, x) : s \in {t \in shorter : Len(t) = n - 1}, x \in S}

\* 2^i
RECURSIVE Pow2(_)
Pow2(i) == IF i = 0 THEN 1 ELSE 2 * Pow2(i - 1)

----------------------------------------------------------------------------
(* Natural numbers of any size, as the sequence of their digits in base    *)
(* 2^14, least significant first, without leading zero digits (0 is <<>>). *)
(* They carry the 53-bit significands of f64 and their exact sums and      *)
(* products.                                                               *)

\* number of bits of a digit, and the base
LimbBits == 14
Base == 16384

\* number of bits of the integer x >= 0
RECURSIVE BitLen(_)
BitLen(x) == IF x = 0 THEN 0 ELSE 1 + BitLen(x \div 2)

RECURSIVE BTrim(_)
BTrim(a) ==
  IF a = <<>> THEN a
  ELSE IF a[Len(a)] = 0 THEN BTrim(SubSeq(a, 1, Len(a) - 1)) ELSE a

\* the integer x >= 0 as a number
RECURSIVE BFromInt(_)
BFromInt(x) == IF x = 0 THEN <<>> ELSE <<x % Base>> \o BFromInt(x \div Base)

\* a + b + c, c a carry digit
RECURSIVE BAddC(_, _, _)
BAddC(a, b, c) ==
  IF a = <<>> /\ b = <<>> THEN (IF c = 0 THEN <<>> ELSE <<c>>)
  ELSE LET x == (IF a = <<>> THEN 0 ELSE Head(a))
                  + (IF b = <<>> THEN 0 ELSE Head(b)) + c
       IN  <<x % Base>> \o BAddC(IF a = <<>> THEN a ELSE Tail(a),
                                 IF b = <<>> THEN b ELSE Tail(b), x \div Base)

BAdd(a, b) == BAddC(a, b, 0)

\* a - b - c digit by digit, for a >= b + c (leading zeros are left)
RECURSIVE BSubC(_, _, _)
BSubC(a, b, c) ==
  IF a = <<>> THEN <<>>
  ELSE LET x == Head(a) - (IF b = <<>> THEN 0 ELSE Head(b)) - c
       IN  <<(x + Base) % Base>>
             \o BSubC(Tail(a), IF b = <<>> THEN b ELSE Tail(b),
                      IF x < 0 THEN 1 ELSE 0)

\* a - b, for a >= b
BSub(a, b) == BTrim(BSubC(a, b, 0))

\* a * d + c, d and c digits
RECURSIVE BMulLimb(_, _, _)
BMulLimb(a, d, c) ==
  IF a = <<>> THEN (IF c = 0 THEN <<>> ELSE <<c>>)
  ELSE LET x == Head(a) * d + c
       IN  <<x % Base>> \o BMulLimb(Tail(a), d, x \div Base)

RECURSIVE BMul(_, _)
BMul(a, b) ==
  IF a = <<>> \/ b = <<>> THEN <<>>
  ELSE LET rest == BMul(a, Tail(b))
       IN  BAdd(BTrim(BMulLimb(a, Head(b), 0)),
                IF rest = <<>> THEN <<>> ELSE <<0>> \o rest)

\* -1, 0, 1 as a < b, a = b, a > b
RECURSIVE BCmpFrom(_, _, _)
BCmpFrom(a, b, i) ==
  IF i = 0 THEN 0
  ELSE IF a[i] < b[i] THEN -1
  ELSE IF a[i] > b[i] THEN 1
  ELSE BCmpFrom(a, b, i - 1)

BCmp(a, b) ==
  IF Len(a) < Len(b) THEN -1
  ELSE IF Len(a) > Len(b) THEN 1
  ELSE BCmpFrom(a, b, Len(a))

\* a * 2^n
BShl(a, n) ==
  IF a = <<>> THEN <<>>
  ELSE [i \in 1..(n \div LimbBits) |-> 0] \o BMulLimb(a, Pow2(n % LimbBits), 0)

\* a \div 2^n
BShr(a, n) ==
  LET q == n \div LimbBits
      r == n % LimbBits
      b == SubSeq(a, q + 1, Len(a))
  IN  IF r = 0 THEN b
      ELSE BTrim([i \in 1..Len(b) |->
                    (b[i] \div Pow2(r))
                      + (IF i < Len(b) THEN (b[i + 1] % Pow2(r)) * Pow2(LimbBits - r)
                                       ELSE 0)])

\* a % 2^n
BLow(a, n) ==
  LET q == n \div LimbBits
      r == n % LimbBits
  IN  IF Len(a) <= q THEN a
      ELSE BTrim(SubSeq(a, 1, q) \o <<a[q + 1] % Pow2(r)>>)

BBitLen(a) ==
  IF a = <<>> THEN 0 ELSE LimbBits * (Len(a) - 1) + BitLen(a[Len(a)])

----------------------------------------------------------------------------
(* f64.  A finite value is [s, m, e] with value (-1)^s * m * 2^e, where m  *)
(* is 0 (the zeros +0.0 and -0.0) or has exactly 53 bits; the infinities   *)
(* and NaN are values of their own.  Sums, products and quotients are      *)
(* computed exactly and rounded to the nearest number, ties to the even    *)
(* significand, as IEEE 754 does.  An infinity arises from a division by   *)
(* zero only: no finite magnitude of the model comes near 2^1024, where a  *)
(* result would overflow, or near 2^-1022, where numbers are subnormal.    *)

\* bits of the significand of f64
Precision == 53
\* beyond this difference of exponents the smaller term of a sum is below
\* a quarter of the last place of the larger and does not change the result
FarApart == 64

NaN == [s |-> 0, m |-> <<0>>, e |-> 0]
IsNaN(x) == x.m = <<0>>
IsZero(x) == x.m = <<>>

\* the infinity of sign s
Inf64(s) == [s |-> s, m |-> <<1>>, e |-> 0]
IsInf(x) == x.m = <<1>>

Zero64 == [s |-> 0, m |-> <<>>, e |-> 0]
NegZero64 == [s |-> 1, m |-> <<>>, e |-> 0]

\* the number nearest to (-1)^s * m * 2^e, for an integer m > 0 of any size
Round64(s, m, e) ==
  LET len == BBitLen(m)
  IN  IF len <= Precision
        THEN [s |-> s, m |-> BShl(m, Precision - len), e |-> e - (Precision - len)]
      ELSE LET d    == len - Precision
               q    == BShr(m, d)
               c    == BCmp(BLow(m, d), BShl(<<1>>, d - 1))
               up   == c > 0 \/ (c = 0 /\ q[1] % 2 = 1)
               r    == IF up THEN BAdd(q, <<1>>) ELSE q
           IN  IF BBitLen(r) > Precision
                 THEN [s |-> s, m |-> BShr(r, 1), e |-> e + d + 1]
                 ELSE [s |-> s, m |-> r, e |-> e + d]

\* f64::from(v) for an integer v (i16, or the u32 of a test sample)
FromInt64(v) ==
  IF v = 0 THEN Zero64
  ELSE IF v < 0 THEN Round64(1, BFromInt(-v), 0)
  ELSE Round64(0, BFromInt(v), 0)

Neg64(a) == IF IsNaN(a) THEN NaN ELSE [a EXCEPT !.s = 1 - a.s]

\* a + b
Add64(a, b) ==
  IF IsNaN(a) \/ IsNaN(b) THEN NaN
  ELSE IF IsInf(a) /\ IsInf(b) THEN (IF a.s = b.s THEN a ELSE NaN)
  ELSE IF IsInf(a) THEN a
  ELSE IF IsInf(b) THEN b
  ELSE IF IsZero(a) /\ IsZero(b)
    THEN (IF a.s = 1 /\ b.s = 1 THEN NegZero64 ELSE Zero64)
  ELSE IF IsZero(a) THEN b
  ELSE IF IsZero(b) THEN a
  ELSE IF a.e - b.e > FarApart THEN a
  ELSE IF b.e - a.e > FarApart THEN b
  ELSE LET e  == IF a.e <= b.e THEN a.e ELSE b.e
           ma == BShl(a.m, a.e - e)
           mb == BShl(b.m, b.e - e)
           c  == BCmp(ma, mb)
       IN  IF a.s = b.s THEN Round64(a.s, BAdd(ma, mb), e)
           ELSE IF c = 0 THEN Zero64
           ELSE IF c > 0 THEN Round64(a.s, BSub(ma, mb), e)
           ELSE Round64(b.s, BSub(mb, ma), e)

\* a - b
Sub64(a, b) == Add64(a, Neg64(b))

\* a * b
Mul64(a, b) ==
  IF IsNaN(a) \/ IsNaN(b) THEN NaN
  ELSE IF IsInf(a) \/ IsInf(b)
    THEN (IF IsZero(a) \/ IsZero(b) THEN NaN ELSE Inf64((a.s + b.s) % 2))
  ELSE IF IsZero(a) \/ IsZero(b)
    THEN (IF a.s = b.s THEN Zero64 ELSE NegZero64)
  ELSE Round64((a.s + b.s) % 2, BMul(a.m, b.m), a.e + b.e)

\* -1, 0, 1 as a < b, a = b, a > b, for numbers
Cmp64(a, b) ==
  LET sa == IF IsZero(a) THEN 0 ELSE IF a.s = 1 THEN -1 ELSE 1
      sb == IF IsZero(b) THEN 0 ELSE IF b.s = 1 THEN -1 ELSE 1
      mag == IF IsInf(a) THEN (IF IsInf(b) THEN 0 ELSE 1)
             ELSE IF IsInf(b) THEN -1
             ELSE IF a.e < b.e THEN -1 ELSE IF a.e > b.e THEN 1 ELSE BCmp(a.m, b.m)
  IN  IF sa < sb THEN -1
      ELSE IF sa > sb THEN 1
      ELSE IF sa = 0 THEN 0
      ELSE sa * mag

\* a >= b, a > b, a == b of f64: false when either is NaN
Ge64(a, b) == ~IsNaN(a) /\ ~IsNaN(b) /\ Cmp64(a, b) >= 0
Gt64(a, b) == ~IsNaN(a) /\ ~IsNaN(b) /\ Cmp64(a, b) > 0
Eq64(a, b) == ~IsNaN(a) /\ ~IsNaN(b) /\ Cmp64(a, b) = 0

\* the literal with sign s, significand digits d0..d3 and exponent e
Lit64(s, d0, d1, d2, d3, e) == [s |-> s, m |-> <<d0, d1, d2, d3>>, e |-> e]

\* the largest digit t + u, u < 2^n, with (t + u) * d <= r
RECURSIVE BDigit(_, _, _, _)
BDigit(r, d, t, n) ==
  IF n = 0 THEN t
  ELSE LET u == t + Pow2(n - 1)
       IN  IF BCmp(BTrim(BMulLimb(d, u, 0)), r) <= 0
             THEN BDigit(r, d, u, n - 1)
             ELSE BDigit(r, d, t, n - 1)

\* long division of r by d, for r < d: n more digits after the quotient q,
\* and the remainder
RECURSIVE BDivDigits(_, _, _, _)
BDivDigits(r, d, q, n) ==
  IF n = 0 THEN [q |-> q, r |-> r]
  ELSE LET r2 == IF r = <<>> THEN r ELSE <<0>> \o r
           t  == BDigit(r2, d, 0, LimbBits)
       IN  BDivDigits(BSub(r2, BTrim(BMulLimb(d, t, 0))), d,
                      IF q = <<>> /\ t = 0 THEN q ELSE <<t>> \o q, n - 1)

\* digits of the quotient computed below the point
QuotientDigits == 4

\* a / b.  0/0 and inf/inf are NaN, x/0 for x # 0 is an infinity.  The
\* quotient of the significands is computed to 56 bits below the point, with
\* one more bit telling whether the remainder is non-zero, and rounded
Div64(a, b) ==
  IF IsNaN(a) \/ IsNaN(b) THEN NaN
  ELSE IF IsInf(a) THEN (IF IsInf(b) THEN NaN ELSE Inf64((a.s + b.s) % 2))
  ELSE IF IsInf(b) THEN (IF a.s = b.s THEN Zero64 ELSE NegZero64)
  ELSE IF IsZero(b) THEN (IF IsZero(a) THEN NaN ELSE Inf64((a.s + b.s) % 2))
  ELSE IF IsZero(a) THEN (IF a.s = b.s THEN Zero64 ELSE NegZero64)
  ELSE LET ge  == BCmp(a.m, b.m) >= 0
           res == BDivDigits(IF ge THEN BSub(a.m, b.m) ELSE a.m, b.m,
                             IF ge THEN <<1>> ELSE <<>>, QuotientDigits)
           st  == IF res.r = <<>> THEN 0 ELSE 1
       IN  Round64((a.s + b.s) % 2, BAddC(BShl(res.q, 1), <<>>, st),
                   a.e - b.e - QuotientDigits * LimbBits - 1)

\* the value of a number of few digits
RECURSIVE BToInt(_)
BToInt(a) == IF a = <<>> THEN 0 ELSE Head(a) + Base * BToInt(Tail(a))

\* the integer part of the magnitude of x, for a finite x below 2^31
Trunc64(x) ==
  IF IsZero(x) THEN 0
  ELSE IF x.e >= 0 THEN BToInt(BShl(x.m, x.e))
  ELSE BToInt(BShr(x.m, -x.e))

\* whether the finite x is an integer
IsInt64(x) == IsZero(x) \/ x.e >= 0 \/ BLow(x.m, -x.e) = <<>>

\* u32::MAX, 2^32 - 1, as a natural number of any size
U32Max == <<Base - 1, Base - 1, 15>>

\* x as u32, as a natural number of any size (u32::MAX is beyond the
\* integers of TLC): the cast truncates and saturates, and gives 0
\* for NaN
AsU32(x) ==
  IF IsNaN(x) \/ IsZero(x) \/ x.s = 1 THEN <<>>
  ELSE IF IsInf(x) \/ x.e >= 0 THEN U32Max
  ELSE LET t == BShr(x.m, -x.e)
       IN  IF BCmp(t, U32Max) > 0 THEN U32Max ELSE t

\* x.floor(), as an integer, for a finite x
Floor64(x) ==
  IF x.s = 0 THEN Trunc64(x)
  ELSE IF IsInt64(x) THEN -Trunc64(x)
  ELSE -Trunc64(x) - 1
----------------------------------------------------------------------------
(* The constant PI, and cos and sin *)

\* std::f64::consts::PI
PI == Lit64(0, 11544, 4368, 8117, 1608, -51)

\* omega, omega.cos() and omega.sin() for every omega that GoertzelFilter::new
\* computes from a block size of 1 to 5 or 160, one of the four frequencies
\* of decode_file and a sampling rate of 800, 1000 or 48000, and from the
\* tests' block size 205, frequency 941 and sampling rate 8000
CosSin ==
  { [x   |-> Lit64(0, 14570, 11089, 6445, 1147, -55),
     cos |-> Lit64(0, 9937, 13013, 15473, 2027, -53),
     sin |-> Lit64(0, 11105, 3686, 10577, 1143, -55)],
    [x   |-> Lit64(0, 13925, 9487, 14081, 1361, -55),
     cos |-> Lit64(0, 7082, 9116, 12537, 2019, -53),
     sin |-> Lit64(0, 16063, 15203, 9752, 1355, -55)],
    [x   |-> Lit64(0, 11069, 12369, 12032, 1085, -54),
     cos |-> Lit64(0, 8450, 14951, 7714, 1976, -53),
     sin |-> Lit64(0, 5970, 13427, 1056, 1073, -54)],
    [x   |-> Lit64(0, 10746, 11568, 15850, 1192, -54),
     cos |-> Lit64(0, 11919, 10032, 12268, 1961, -53),
     sin |-> Lit64(0, 500, 3600, 2830, 1176, -54)],
    [x   |-> Lit64(0, 10747, 11568, 15850, 1192, -54),
     cos |-> Lit64(0, 11919, 10032, 12268, 1961, -53),
     sin |-> Lit64(0, 501, 3600, 2830, 1176, -54)],
    [x   |-> Lit64(0, 9290, 8190, 9735, 1513, -53),
     cos |-> Lit64(0, 15053, 5464, 11165, 1513, -53),
     sin |-> Lit64(0, 9998, 9613, 8501, 1379, -53)],
    [x   |-> Lit64(0, 13662, 8442, 1476, 1721, -50),
     cos |-> Lit64(0, 5519, 13168, 1405, 1853, -53),
     sin |-> Lit64(0, 396, 9366, 16252, 1743, -54)],
    [x   |-> Lit64(0, 13663, 8442, 1476, 1721, -50),
     cos |-> Lit64(0, 5516, 13168, 1405, 1853, -53),
     sin |-> Lit64(0, 410, 9366, 16252, 1743, -54)],
    [x   |-> Lit64(0, 12694, 6039, 12930, 2042, -50),
     cos |-> Lit64(1, 7099, 13957, 11957, 1026, -55),
     sin |-> Lit64(0, 6404, 4611, 13941, 2031, -53)],
    [x   |-> Lit64(0, 12695, 6039, 12930, 2042, -50),
     cos |-> Lit64(1, 7131, 13957, 11957, 1026, -55),
     sin |-> Lit64(0, 6403, 4611, 13941, 2031, -53)],
    [x   |-> Lit64(0, 12635, 13468, 11162, 1075, -49),
     cos |-> Lit64(1, 11927, 9172, 1262, 1070, -53),
     sin |-> Lit64(0, 1348, 6804, 3392, 1746, -53)],
    [x   |-> Lit64(0, 14078, 7870, 12177, 1276, -49),
     cos |-> Lit64(1, 1348, 6804, 3392, 1746, -53),
     sin |-> Lit64(1, 11926, 9172, 1262, 1070, -53)],
    [x   |-> Lit64(0, 14079, 7870, 12177, 1276, -49),
     cos |-> Lit64(1, 1340, 6804, 3392, 1746, -53),
     sin |-> Lit64(1, 11940, 9172, 1262, 1070, -53)],
    [x   |-> Lit64(0, 8411, 2170, 9857, 1628, -49),
     cos |-> Lit64(0, 9310, 4287, 12873, 2022, -53),
     sin |-> Lit64(0, 4932, 7841, 8374, 1281, -55)],
    [x   |-> Lit64(0, 8412, 2170, 9857, 1628, -49),
     cos |-> Lit64(0, 9307, 4287, 12873, 2022, -53),
     sin |-> Lit64(0, 4995, 7841, 8374, 1281, -55)],
    [x   |-> Lit64(0, 16119, 968, 7392, 1789, -49),
     cos |-> Lit64(0, 5032, 7841, 8374, 1281, -55),
     sin |-> Lit64(0, 9306, 4287, 12873, 2022, -53)],
    [x   |-> Lit64(0, 16120, 968, 7392, 1789, -49),
     cos |-> Lit64(0, 4969, 7841, 8374, 1281, -55),
     sin |-> Lit64(0, 9308, 4287, 12873, 2022, -53)],
    [x   |-> Lit64(0, 2322, 6809, 12321, 2035, -49),
     cos |-> Lit64(1, 7346, 16349, 10620, 2008, -53),
     sin |-> Lit64(1, 9693, 12710, 2947, 1598, -55)],
    [x   |-> Lit64(0, 2323, 6809, 12321, 2035, -49),
     cos |-> Lit64(1, 7343, 16349, 10620, 2008, -53),
     sin |-> Lit64(1, 9756, 12710, 2947, 1598, -55)],
    [x   |-> Lit64(0, 10074, 605, 6668, 1118, -48),
     cos |-> Lit64(0, 9628, 12710, 2947, 1598, -55),
     sin |-> Lit64(1, 7350, 16349, 10620, 2008, -53)],
    [x   |-> Lit64(0, 10075, 605, 6668, 1118, -48),
     cos |-> Lit64(0, 9754, 12710, 2947, 1598, -55),
     sin |-> Lit64(1, 7343, 16349, 10620, 2008, -53)] }

\* x.cos() and x.sin(): NaN for NaN and for an infinity, the tabulated
\* value otherwise
Cos64(x) ==
  IF IsNaN(x) \/ IsInf(x) THEN NaN ELSE (CHOOSE t \in CosSin : t.x = x).cos
Sin64(x) ==
  IF IsNaN(x) \/ IsInf(x) THEN NaN ELSE (CHOOSE t \in CosSin : t.x = x).sin

----------------------------------------------------------------------------
(* GoertzelFilter *)

\* GoertzelFilter::new, for a block size (usize) and a frequency and a
\* sampling rate in f64.  With block_size = 0, k is 0.0 and omega is
\* 0.0 / 0.0 = NaN; with sampling_rate = 0.0 and block_size > 0, k and omega
\* are infinite and k as u32 is u32::MAX; with sampling_rate NaN, k and omega
\* are NaN.  In each of these cases cos, sin and coeff are NaN.
GoertzelFilter_new(block_size, target_freq, sampling_rate) ==
  LET n64   == FromInt64(block_size)
      k     == Div64(Mul64(n64, target_freq), sampling_rate)
      omega == Div64(Mul64(Mul64(FromInt64(2), PI), k), n64)
      cos   == Cos64(omega)
  IN  [ k     |-> AsU32(k),
        n     |-> block_size,
        coeff |-> Mul64(FromInt64(2), cos),
        q1    |-> Zero64,
        q2    |-> Zero64,
        sin   |-> Sin64(omega),
        cos   |-> cos ]

\* one iteration of the loop of process: q0 = coeff*q1 - q2 + v; q2 = q1; q1 = q0
process_step(f, v) ==
  LET q0 == Add64(Sub64(Mul64(f.coeff, f.q1), f.q2), FromInt64(v))
  IN  [f EXCEPT !.q2 = f.q1, !.q1 = q0]

\* the loop of process over the samples s[lo], ..., s[hi], in order: the
\* iterations of the first half of the range, then those of the second half
\* on the filter the first half leaves (computed before the second half is
\* entered)
RECURSIVE process_loop(_, _, _, _)
process_loop(f, s, lo, hi) ==
  IF lo > hi THEN f
  ELSE IF lo = hi THEN process_step(f, s[lo])
  ELSE LET mid == (lo + hi) \div 2
           g   == process_loop(f, s, lo, mid)
       IN  CASE g.n = f.n -> process_loop(g, s, mid + 1, hi)

\* a reset that forgets q1
reset_q2_only(f) == [f EXCEPT !.q2 = Zero64]

\* GoertzelFilter::reset
reset(f) == [f EXCEPT !.q2 = Zero64, !.q1 = Zero64]

\* a process that starts from cleared accumulators
process_clearing(f, s) == process_loop(reset(f), s, 1, Len(s))

\* GoertzelFilter::process
process(f, s) == process_loop(f, s, 1, Len(s))

\* GoertzelFilter::get_real_imag: <<real, imag>>
get_real_imag(f) ==
  <<Sub64(f.q1, Mul64(f.q2, f.cos)), Mul64(f.q2, f.sin)>>

\* GoertzelFilter::get_mag_sq
get_mag_sq(f) ==
  Sub64(Add64(Mul64(f.q1, f.q1), Mul64(f.q2, f.q2)),
        Mul64(Mul64(f.q1, f.q2), f.coeff))

\* the value of mark and space before the filters are constructed
NoFilter ==
  [k |-> <<>>, n |-> 0, coeff |-> Zero64, q1 |-> Zero64, q2 |-> Zero64,
   sin |-> Zero64, cos |-> Zero64]

----------------------------------------------------------------------------
(* decode_file: the filters and the block loop *)

\* causes of a panic
DivideByZero == "divide by zero"
IndexOutOfBounds == "index out of bounds"
UnwrapNone == "unwrap on None"
OpenFailed == "unwrap on Err: File::open"
BadHeader == "unwrap on Err: WavReader::new"
BadSample == "unwrap on Err: sample"
CreateFailed == "unwrap on Err: File::create"
WriteFailed == "unwrap on Err: write_all"
PrintFailed == "failed printing to stdout"

\* the panics of lines 63-65, and of lines 97-100
InputErrors == {OpenFailed, BadHeader, BadSample}
OutputErrors == {CreateFailed, WriteFailed, PrintFailed}

\* lines 53-57: the pair of frequencies, in f64
mark_frequency ==
  FromInt64(IF opt.origin THEN ORIG_MARK_FREQUENCY ELSE ANS_MARK_FREQUENCY)
space_frequency ==
  FromInt64(IF opt.origin THEN ORIG_SPACE_FREQUENCY ELSE ANS_SPACE_FREQUENCY)

\* the i-th item (from 0) of s.chunks(size): size elements, fewer for the last
ChunkAt(s, size, i) == SubSeq(s, i * size + 1, Min((i + 1) * size, Len(s)))

\* chunks_exact: only the full chunks are items
HasFullChunk(s, size, i) == (i + 1) * size <= Len(s)

\* whether s.chunks(size) has an i-th item (from 0)
HasChunk(s, size, i) == i * size < Len(s)

\* a comparison that gives a tie to space
CompareBitStrict(m, s) == IF Gt64(get_mag_sq(m), get_mag_sq(s)) THEN 1 ELSE 0

\* the bit of one block: 1 if mark's magnitude is >= space's
CompareBit(m, s) == IF Ge64(get_mag_sq(m), get_mag_sq(s)) THEN 1 ELSE 0

\* values of --sampling_rate drawn (f64, nothing is validated): the default
\* 48000, two low rates, 0 and NaN
SamplingRates ==
  {FromInt64(800), FromInt64(1000), FromInt64(48000), Zero64, NaN}

\* Option<PathBuf>: None as <<>>, Some(path) as <<path>>
Outputs == {<<>>, <<"message.txt">>}

Opts ==
  [ output        : Outputs,
    sampling_rate : SamplingRates,
    filter_length : 0..MaxFilterLength,
    origin        : BOOLEAN ]

\* the contents of the WAV files drawn
Wavs == SeqsUpTo(SampleValues, MaxSamples)

Init ==
  /\ opt \in Opts
  /\ samples = <<>>
  /\ mark = NoFilter
  /\ space = NoFilter
  /\ ci = 0
  /\ chunk = <<>>
  /\ bits = <<>>
  /\ fi = 0
  /\ message = <<>>
  /\ out = ""
  /\ pc = "new"
  /\ err = ""

\* lines 53-60
NewFilters ==
  /\ pc = "new"
  /\ mark' = GoertzelFilter_new(opt.filter_length, mark_frequency, opt.sampling_rate)
  /\ space' = GoertzelFilter_new(opt.filter_length, space_frequency, opt.sampling_rate)
  /\ pc' = "read"
  /\ UNCHANGED <<opt, samples, ci, chunk, bits, fi, message, out, err>>

\* lines 63-65: the file is opened, parsed and read to its end, or one of
\* the three unwraps panics: the file cannot be opened, it is no WAV file,
\* or a sample cannot be read
ReadSamples ==
  /\ pc = "read"
  /\ \/ \E w \in Wavs :
          /\ samples' = w
          /\ pc' = "alloc"
          /\ UNCHANGED err
     \/ \E e \in InputErrors :
          /\ pc' = "panic"
          /\ err' = e
          /\ UNCHANGED samples
  /\ UNCHANGED <<opt, mark, space, ci, chunk, bits, fi, message, out>>

\* line 68: samples.len() / opt.filter_length panics when filter_length is 0
AllocBits ==
  /\ pc = "alloc"
  /\ IF opt.filter_length = 0
       THEN /\ pc' = "panic"
            /\ err' = DivideByZero
            /\ UNCHANGED bits
       ELSE /\ pc' = "chunks"
            /\ bits' = <<>>
            /\ UNCHANGED err
  /\ UNCHANGED <<opt, samples, mark, space, ci, chunk, fi, message, out>>

\* line 69: the loop takes the next chunk
TakeChunk ==
  /\ pc = "chunks"
  /\ HasChunk(samples, opt.filter_length, ci)
  /\ chunk' = ChunkAt(samples, opt.filter_length, ci)
  /\ ci' = ci + 1
  /\ pc' = "process"
  /\ UNCHANGED <<opt, samples, mark, space, bits, fi, message, out, err>>

\* line 69: the chunks are exhausted; line 83
BlocksDone ==
  /\ pc = "chunks"
  /\ ~HasChunk(samples, opt.filter_length, ci)
  /\ message' = <<>>
  /\ pc' = "frames"
  /\ UNCHANGED <<opt, samples, mark, space, ci, chunk, bits, fi, out, err>>

\* lines 70-71
ProcessChunk ==
  /\ pc = "process"
  /\ mark' = process(mark, chunk)
  /\ space' = process(space, chunk)
  /\ pc' = "compare"
  /\ UNCHANGED <<opt, samples, ci, chunk, bits, fi, message, out, err>>

\* lines 72-77
EmitBit ==
  /\ pc = "compare"
  /\ bits' = Append(bits, CompareBit(mark, space))
  /\ pc' = "reset"
  /\ UNCHANGED <<opt, samples, mark, space, ci, chunk, fi, message, out, err>>

\* lines 78-79
ResetFilters ==
  /\ pc = "reset"
  /\ mark' = reset(mark)
  /\ space' = reset(space)
  /\ pc' = "chunks"
  /\ UNCHANGED <<opt, samples, ci, chunk, bits, fi, message, out, err>>

----------------------------------------------------------------------------
(* decode_file: the loop over the chunks of 10 bits, and the output *)

\* c[i] of a slice, i counted from 0
At(c, i) == c[i + 1]

\* c[lo..hi] of a slice: positions lo to hi - 1, counted from 0
Slice(c, lo, hi) == SubSeq(c, lo + 1, hi)

RECURSIVE Reverse(_)
Reverse(s) == IF s = <<>> THEN <<>> ELSE Append(Reverse(Tail(s)), Head(s))

\* (acc << 1) | b on u32, for a bit b: acc << 1 is even, so | adds b
ShiftOr(acc, b) == LET sh == acc * 2 IN IF sh % 2 = 1 THEN sh ELSE sh + b

\* .fold(0, |acc, &b| (acc << 1) | u32::from(b)) from acc over the bits of s
RECURSIVE FoldBits(_, _)
FoldBits(acc, s) ==
  IF s = <<>> THEN acc ELSE FoldBits(ShiftOr(acc, Head(s)), Tail(s))

\* the fold without .rev(): the first data bit becomes the most significant
frame_int_no_rev(c) == FoldBits(0, Slice(c, 1, 8))

\* the fold over chunk[1..9]: eight data bits
frame_int_8_bits(c) == FoldBits(0, Reverse(Slice(c, 1, 9)))

\* lines 86-89: chunk[1..8].iter().rev().fold(..)
frame_int(c) == FoldBits(0, Reverse(Slice(c, 1, 8)))

\* std::char::from_u32: Some(char) as <<code point>>, None as <<>>
from_u32(i) ==
  IF (0 <= i /\ i < SurrogateLo) \/ (SurrogateHi < i /\ i <= CharMax)
    THEN <<i>> ELSE <<>>

\* a check that reads the stop bit and does not compare it
frame_check_stop_ignored(c) ==
  IF At(c, 0) # 0 THEN "skip"
  ELSE IF Len(c) <= 9 THEN "panic"
  ELSE "valid"

\* line 85: chunk[0] == 0 && chunk[9] == 1.  && evaluates chunk[9] only when
\* chunk[0] is 0, and indexing panics when the chunk has no position 9.
frame_check(c) ==
  IF At(c, 0) # 0 THEN "skip"
  ELSE IF Len(c) <= 9 THEN "panic"
  ELSE IF At(c, 9) # 1 THEN "skip"
  ELSE "valid"

\* lines 84-93: one iteration of the loop over bits.chunks(10)
FrameStep ==
  /\ pc = "frames"
  /\ HasChunk(bits, FrameLen, fi)
  /\ LET c     == ChunkAt(bits, FrameLen, fi)
         check == frame_check(c)
         char  == from_u32(frame_int(c))
     IN  IF check = "panic"
           THEN /\ pc' = "panic"
                /\ err' = IndexOutOfBounds
                /\ UNCHANGED <<fi, message>>
         ELSE IF check = "skip"
           THEN /\ fi' = fi + 1
                /\ UNCHANGED <<message, pc, err>>
         ELSE IF char = <<>>
           THEN /\ pc' = "panic"
                /\ err' = UnwrapNone
                /\ UNCHANGED <<fi, message>>
         ELSE /\ message' = Append(message, char[1])
              /\ fi' = fi + 1
              /\ UNCHANGED <<pc, err>>
  /\ UNCHANGED <<opt, samples, mark, space, ci, chunk, bits, out>>

\* lines 96-101, after the loop: with an output path the file is created
\* and the message written to it, and either unwrap panics on an error;
\* without one the message is printed, and println! panics on an error
Output ==
  /\ pc = "frames"
  /\ ~HasChunk(bits, FrameLen, fi)
  /\ IF opt.output # <<>>
       THEN \/ /\ out' = "file"
               /\ pc' = "done"
               /\ UNCHANGED err
            \/ \E e \in {CreateFailed, WriteFailed} :
                 /\ pc' = "panic"
                 /\ err' = e
                 /\ UNCHANGED out
       ELSE \/ /\ out' = "stdout"
               /\ pc' = "done"
               /\ UNCHANGED err
            \/ /\ pc' = "panic"
               /\ err' = PrintFailed
               /\ UNCHANGED out
  /\ UNCHANGED <<opt, samples, mark, space, ci, chunk, bits, fi, message>>

Next ==
  \/ NewFilters
  \/ ReadSamples
  \/ AllocBits
  \/ TakeChunk
  \/ BlocksDone
  \/ ProcessChunk
  \/ EmitBit
  \/ ResetFilters
  \/ FrameStep
  \/ Output

\* decode_file run on a drawn command line and input file
Spec == Init /\ [][Next]_vars

----------------------------------------------------------------------------
(* The framing loop and the output on drawn bit sequences *)

Bit == {0, 1}

\* the frame of character code c: start bit 0, the 7 bits of c least
\* significant first, the bit p in position 8, stop bit 1
EncodeFrame(c, p) ==
  <<0>> \o [i \in 1..7 |-> (c \div Pow2(i - 1)) % 2] \o <<p, 1>>

\* a frame with the given start bit, data, position 8 and stop bit
FrameOf(start, c, p, stop) ==
  <<start>> \o [i \in 1..7 |-> (c \div Pow2(i - 1)) % 2] \o <<p, stop>>

RECURSIVE Flatten(_)
Flatten(ss) == IF ss = <<>> THEN <<>> ELSE Head(ss) \o Flatten(Tail(ss))

\* the frames drawn for the sequences of several frames: 'A' and 'j',
\* with good and bad start and stop bits
FrameAlphabet == {FrameOf(s, c, 0, e) : s \in Bit, c \in {65, 106}, e \in Bit}

\* the partial final chunks drawn: every length below 10, all zeros or all ones
Tails == {[i \in 1..n |-> b] : n \in 0..(FrameLen - 1), b \in Bit}

\* every single frame; and up to MaxFrames frames followed by a partial chunk
BitInputs ==
  [1..FrameLen -> Bit]
    \cup {Flatten(fs) \o t : fs \in SeqsUpTo(FrameAlphabet, MaxFrames), t \in Tails}

\* the state of decode_file at line 83, on a drawn vector of bits: the
\* default command line with a block of one sample, with and without an
\* output path
InitFrames ==
  /\ opt \in [output : Outputs, sampling_rate : {FromInt64(48000)}, filter_length : {1},
              origin : {FALSE}]
  /\ samples = <<>>
  /\ mark = GoertzelFilter_new(1, FromInt64(ANS_MARK_FREQUENCY), FromInt64(48000))
  /\ space = GoertzelFilter_new(1, FromInt64(ANS_SPACE_FREQUENCY), FromInt64(48000))
  /\ ci = 0
  /\ chunk = <<>>
  /\ bits \in BitInputs
  /\ fi = 0
  /\ message = <<>>
  /\ out = ""
  /\ pc = "frames"
  /\ err = ""

NextFrames == FrameStep \/ Output

\* lines 83-101 run on a drawn vector of bits
SpecFrames == InitFrames /\ [][NextFrames]_vars

----------------------------------------------------------------------------
(* One filter fed in pieces, as the tests feed it *)

\* generate_test_samples(frequency) for the frequencies of
\* test_goertzel_filter_target: (100.0 * (i * step).sin() + 100.0) as u8 for
\* i in 0..BLOCK_SIZE, step = frequency * 2.0 * PI / SAMPLING_RATE
generate_test_samples(frequency) ==
  CASE frequency = 691 ->
    << 100, 151, 188, 199, 182, 141, 88, 38, 6, 1, 24, 69, 122, 169, 196, 195, 167, 119, 66, 22,
        0, 7, 41, 91, 144, 184, 199, 186, 148, 96, 45, 10, 0, 19, 61, 114, 163, 194, 197, 173,
        127, 74, 28, 2, 4, 34, 83, 136, 179, 199, 190, 156, 105, 52, 14, 0, 14, 53, 106, 156,
        191, 199, 178, 135, 82, 34, 4, 2, 28, 75, 128, 174, 198, 194, 162, 113, 60, 18, 0, 10,
        46, 97, 149, 187, 199, 183, 143, 90, 40, 7, 1, 22, 67, 120, 168, 196, 196, 169, 121, 68,
        23, 1, 7, 39, 89, 142, 182, 199, 188, 150, 99, 47, 11, 0, 17, 59, 112, 161, 193, 198,
        175, 130, 76, 29, 3, 4, 33, 81, 134, 177, 199, 191, 158, 107, 55, 15, 0, 13, 51, 103,
        154, 190, 199, 180, 137, 84, 35, 5, 2, 27, 72, 126, 172, 197, 194, 164, 115, 62, 20, 0,
        9, 44, 95, 147, 186, 199, 185, 145, 93, 42, 8, 0, 21, 64, 118, 166, 195, 197, 170, 124,
        70, 25, 1, 6, 37, 87, 140, 181, 199, 189, 152, 101, 49, 12, 0, 16, 57, 109, 159, 192,
        198, 176, 132, 78, 31 >>
    [] frequency = 941 ->
    << 100, 167, 199, 179, 118, 47, 3, 10, 63, 136, 189, 196, 152, 81, 20, 0, 32, 99, 167, 199,
        179, 118, 47, 3, 10, 63, 135, 189, 196, 152, 82, 20, 0, 32, 99, 167, 199, 180, 118, 47,
        3, 10, 63, 135, 189, 196, 153, 82, 20, 0, 32, 99, 166, 199, 180, 119, 48, 4, 10, 63,
        135, 189, 196, 153, 82, 20, 0, 31, 99, 166, 199, 180, 119, 48, 4, 10, 62, 135, 189, 196,
        153, 82, 20, 0, 31, 98, 166, 199, 180, 119, 48, 4, 9, 62, 134, 188, 196, 153, 82, 21,
        0, 31, 98, 166, 199, 180, 119, 48, 4, 9, 62, 134, 188, 196, 153, 83, 21, 0, 31, 98,
        166, 199, 180, 120, 48, 4, 9, 62, 134, 188, 196, 154, 83, 21, 0, 31, 98, 165, 199, 180,
        120, 49, 4, 9, 62, 134, 188, 196, 154, 83, 21, 0, 31, 97, 165, 199, 181, 120, 49, 4,
        9, 61, 134, 188, 196, 154, 83, 21, 0, 30, 97, 165, 199, 181, 120, 49, 4, 9, 61, 133,
        188, 196, 154, 84, 21, 0, 30, 97, 165, 199, 181, 120, 49, 4, 9, 61, 133, 188, 196, 154,
        84, 21, 0, 30, 97 >>
    [] frequency = 1191 ->
    << 100, 180, 195, 132, 43, 0, 37, 126, 193, 184, 107, 23, 2, 60, 150, 199, 167, 80, 9, 11,
        85, 171, 198, 145, 55, 1, 27, 112, 187, 191, 121, 33, 0, 47, 137, 196, 177, 94, 16, 6,
        72, 160, 199, 157, 68, 5, 18, 98, 179, 196, 134, 45, 0, 36, 124, 192, 185, 108, 25, 2,
        58, 148, 199, 168, 82, 10, 11, 84, 170, 199, 147, 57, 1, 26, 110, 186, 191, 122, 35, 0,
        46, 136, 196, 178, 96, 17, 5, 70, 159, 199, 159, 70, 5, 17, 96, 178, 196, 136, 46, 0,
        35, 122, 191, 186, 110, 26, 1, 57, 147, 198, 170, 84, 11, 10, 82, 168, 199, 149, 58, 2,
        24, 108, 185, 192, 124, 36, 0, 44, 134, 196, 179, 98, 18, 4, 68, 157, 199, 160, 72, 6,
        16, 94, 177, 196, 137, 48, 0, 33, 120, 191, 187, 112, 27, 1, 55, 145, 198, 171, 86, 12,
        9, 80, 167, 199, 150, 60, 2, 23, 106, 184, 193, 126, 37, 0, 43, 132, 195, 180, 100, 19,
        4, 66, 156, 199, 162, 73, 6, 15, 92, 175, 197, 139, 49, 0, 32, 119, 190, 188, 114, 28,
        1, 53, 144, 198, 172 >>

\* the frequencies of test_goertzel_filter_target
TestFrequencies == {TARGET_FREQUENCY - 250, TARGET_FREQUENCY, TARGET_FREQUENCY + 250}

\* amplitudes of the samples fed in pieces: the range of the tests' samples
FeedValues == {0, 100, 200}

\* the filter of the tests.  mark is the filter that is fed; space keeps the
\* filter as it was constructed or last reset and is never fed; samples
\* collects what mark was fed since then, chunk is the last piece, and ci
\* counts the calls of process
InitFeed ==
  /\ opt = [output |-> <<>>, sampling_rate |-> FromInt64(SAMPLING_RATE),
            filter_length |-> BLOCK_SIZE, origin |-> FALSE]
  /\ samples = <<>>
  /\ mark = GoertzelFilter_new(BLOCK_SIZE, FromInt64(TARGET_FREQUENCY),
                              FromInt64(SAMPLING_RATE))
  /\ space = mark
  /\ ci = 0
  /\ chunk = <<>>
  /\ bits = <<>>
  /\ fi = 0
  /\ message = <<>>
  /\ out = ""
  /\ pc = "test"
  /\ err = ""

\* filter.process(&piece)
FeedPiece ==
  /\ pc = "test"
  /\ ci < MaxFed
  /\ \E piece \in SeqsUpTo(FeedValues, 2) :
       /\ Len(samples) + Len(piece) <= MaxFed
       /\ mark' = process(mark, piece)
       /\ samples' = samples \o piece
       /\ chunk' = piece
  /\ ci' = ci + 1
  /\ UNCHANGED <<opt, space, bits, fi, message, out, pc, err>>

\* run_test(&mut filter, frequency) on the constructed or reset filter: the
\* block of generated samples is processed in one call
RunTest ==
  /\ pc = "test"
  /\ ci = 0
  /\ \E frequency \in TestFrequencies :
       /\ mark' = process(mark, generate_test_samples(frequency))
       /\ samples' = generate_test_samples(frequency)
       /\ chunk' = generate_test_samples(frequency)
  /\ ci' = ci + 1
  /\ UNCHANGED <<opt, space, bits, fi, message, out, pc, err>>

\* filter.reset()
FeedReset ==
  /\ pc = "test"
  /\ ci > 0
  /\ mark' = reset(mark)
  /\ space' = reset(mark)
  /\ samples' = <<>>
  /\ chunk' = <<>>
  /\ ci' = 0
  /\ UNCHANGED <<opt, bits, fi, message, out, pc, err>>

NextFeed == FeedPiece \/ RunTest \/ FeedReset

\* process and reset called on the filter of the tests
SpecFeed == InitFeed /\ [][NextFeed]_vars

\* real.floor(), imag.floor() and get_mag_sq().floor() of the filter
floors(f) ==
  <<Floor64(get_real_imag(f)[1]), Floor64(get_real_imag(f)[2]),
    Floor64(get_mag_sq(f))>>

\* the assertions of test_goertzel_filter_target hold after each run_test
TestAsserted ==
  /\ samples = generate_test_samples(TARGET_FREQUENCY - 250) =>
       floors(mark) = <<-316, -187, 134338>>
  /\ samples = generate_test_samples(TARGET_FREQUENCY) =>
       floors(mark) = <<-191, -10196, 103981719>>
  /\ samples = generate_test_samples(TARGET_FREQUENCY + 250) =>
       floors(mark) = <<596, -177, 387565>>

----------------------------------------------------------------------------
(* What the specification says, stated independently of the code's text *)

\* the value of a frame's data bits: the sum of chunk[1+i] << i for i in 0..6
DataValue(c) ==
  At(c, 1) + 2 * At(c, 2) + 4 * At(c, 3) + 8 * At(c, 4)
    + 16 * At(c, 5) + 32 * At(c, 6) + 64 * At(c, 7)

\* the j-th group (from 0) of 10 bits of b
FrameAt(b, j) == SubSeq(b, FrameLen * j + 1, Min(FrameLen * (j + 1), Len(b)))

\* a full frame with start bit 0 and stop bit 1
ValidFrame(c) == Len(c) = FrameLen /\ At(c, 0) = 0 /\ At(c, 9) = 1

\* the characters of the valid frames among the first n frames of b, in order
RECURSIVE ExpectedMessage(_, _)
ExpectedMessage(b, n) ==
  IF n = 0 THEN <<>>
  ELSE LET c == FrameAt(b, n - 1)
       IN  IF ValidFrame(c)
             THEN Append(ExpectedMessage(b, n - 1), DataValue(c))
             ELSE ExpectedMessage(b, n - 1)

CeilDiv(a, b) == (a + b - 1) \div b

\* the i-th block (from 1) of the samples, for block size n
BlockOf(i, n) == SubSeq(samples, (i - 1) * n + 1, Min(i * n, Len(samples)))

\* the frequencies of decode_file, in f64
Frequencies ==
  { FromInt64(ORIG_MARK_FREQUENCY), FromInt64(ORIG_SPACE_FREQUENCY),
    FromInt64(ANS_MARK_FREQUENCY), FromInt64(ANS_SPACE_FREQUENCY) }

\* the freshly constructed filter of each block size, frequency and
\* sampling rate drawn
Fresh ==
  [n \in 0..MaxFilterLength, f \in Frequencies, r \in SamplingRates |->
     GoertzelFilter_new(n, f, r)]

\* freshly constructed filters with the parameters of the command line
FreshMark == Fresh[opt.filter_length, mark_frequency, opt.sampling_rate]
FreshSpace == Fresh[opt.filter_length, space_frequency, opt.sampling_rate]

\* the blocks of the files drawn
Blocks == SeqsUpTo(SampleValues, Min(MaxFilterLength, MaxSamples)) \ {<<>>}

\* the bit of each block decided by two freshly constructed filters, for
\* each block size, choice of frequencies and sampling rate drawn
Decided ==
  [n \in 1..MaxFilterLength, o \in BOOLEAN, r \in SamplingRates, b \in Blocks |->
     LET fm == FromInt64(IF o THEN ORIG_MARK_FREQUENCY ELSE ANS_MARK_FREQUENCY)
         fs == FromInt64(IF o THEN ORIG_SPACE_FREQUENCY ELSE ANS_SPACE_FREQUENCY)
         m  == process(Fresh[n, fm, r], b)
         s  == process(Fresh[n, fs, r], b)
     IN  IF Ge64(get_mag_sq(m), get_mag_sq(s)) THEN 1 ELSE 0]

\* the bit of a block decided by two fresh filters of the command line
FreshBit(block) == Decided[opt.filter_length, opt.origin, opt.sampling_rate, block]

\* the samples have been read from the file
SamplesRead == pc \notin {"new", "read"} /\ err \notin InputErrors

\* a sampling rate that is a number above 0.0
PositiveRate == Gt64(opt.sampling_rate, Zero64)

\* a configuration whose block size or sampling rate is not positive
InvalidOpt == opt.filter_length <= 0 \/ ~PositiveRate

\* every sample read is 0
AllZero == \A i \in 1..Len(samples) : samples[i] = 0

----------------------------------------------------------------------------
(* Claims *)

\* C1: when the number of bits is not a multiple of 10, the framing loop
\* skips the final partial chunk without indexing its position 9 and without
\* a panic, and the message is the one decoded from the bits truncated to
\* the largest multiple of 10 (a failure to write or print the message
\* aside).  The code indexes chunk[9] of a partial chunk whose first bit is
\* 0 and panics.
C1_PartialChunkSkipped ==
  Len(bits) % FrameLen # 0 =>
    /\ err # IndexOutOfBounds
    /\ pc = "panic" => err \in OutputErrors
    /\ (pc = "done" \/ err \in OutputErrors) =>
         message = ExpectedMessage(bits, Len(bits) \div FrameLen)

\* C2: on a sequence of full 10-bit frames the message holds exactly one
\* character per frame with chunk[0] = 0 and chunk[9] = 1, in frame order,
\* nothing for any other frame, and no frame raises an error: the only
\* panics are those of writing or printing the finished message.
C2_ValidFramesOnly ==
  Len(bits) % FrameLen = 0 =>
    /\ pc = "panic" => err \in OutputErrors
    /\ err \in OutputErrors \cup {""}
    /\ message = ExpectedMessage(bits, fi)
    /\ pc \in {"done", "panic"} => fi = Len(bits) \div FrameLen

\* C2 witness: valid 'A', a frame with a bad stop bit, valid 'j' decoded to "Aj"
C2_Witness ==
  /\ pc = "done"
  /\ bits = FrameOf(0, 65, 0, 1) \o FrameOf(0, 106, 0, 0) \o FrameOf(0, 106, 0, 1)
  /\ message = <<65, 106>>

\* C3: the frame of a character code c (start 0, the 7 bits of c least
\* significant first, any bit in position 8, stop 1) decodes to exactly c;
\* the decoded value of a valid frame is the sum of chunk[1+i] << i, lies in
\* 0..127, and its 7 bits are the frame's data bits (a bijection).
C3_LsbFirstRoundTrip ==
  /\ (fi >= 1 /\ ValidFrame(FrameAt(bits, 0))) =>
       /\ Len(message) >= 1
       /\ message[1] = DataValue(FrameAt(bits, 0))
       /\ message[1] \in 0..127
       /\ EncodeFrame(message[1], At(bits, 8)) = FrameAt(bits, 0)
  /\ (fi >= 1 /\ Len(bits) = FrameLen) =>
       \A c \in 0..127 : \A p \in Bit :
         bits = EncodeFrame(c, p) => message = <<c>>

\* C3 witness: the frame of 'j' (1101010, not a palindrome) decoded to 'j'
C3_Witness ==
  /\ pc = "done"
  /\ bits = EncodeFrame(106, 1)
  /\ message = <<106>>

C5_NoCrossBlockLeak ==
  /\ pc \in {"chunks", "process"} =>
       /\ mark.q1 = Zero64 /\ mark.q2 = Zero64
       /\ space.q1 = Zero64 /\ space.q2 = Zero64
  /\ pc \in {"compare", "reset"} =>
       /\ mark = process(FreshMark, chunk)
       /\ space = process(FreshSpace, chunk)

\* C5 witness: a second block about to be processed, after a first block
\* that left non-zero accumulators in a fresh filter
C5_Witness ==
  /\ pc = "process"
  /\ PositiveRate
  /\ ci = 2
  /\ \E i \in 1..Len(chunk) : chunk[i] # 0
  /\ ~IsZero(process(FreshMark, BlockOf(1, opt.filter_length)).q1)

C7_InvalidOptRejected ==
  InvalidOpt =>
    /\ pc = "new"
    /\ mark = NoFilter
    /\ space = NoFilter
    /\ samples = <<>>

\* C8: character conversion never aborts the decode: the value taken from a
\* valid frame lies in 0..127, from_u32 accepts it, one character is pushed
\* per valid frame, and no panic happens on a full 10-bit chunk.
C8_ConversionNeverFails ==
  /\ err # UnwrapNone
  /\ \A i \in 1..Len(message) :
       message[i] \in 0..127 /\ from_u32(message[i]) = <<message[i]>>
  /\ Len(message) = Cardinality({j \in 0..(fi - 1) : ValidFrame(FrameAt(bits, j))})
  /\ (pc = "panic" /\ err \notin OutputErrors) => Len(FrameAt(bits, fi)) < FrameLen

\* C8 witness: the frame with all data bits and position 8 set, decoded to 127
C8_Witness ==
  /\ pc = "done"
  /\ bits = EncodeFrame(127, 1)
  /\ message = <<127>>

\* C9: for L samples and block size N > 0 the block loop pushes one bit per
\* block in block order, ceil(L / N) bits in all, bit i decided from the
\* samples [i*N, min((i+1)*N, L)); a short final block is processed over the
\* samples present and the block loop does not fail: a panic comes from
\* chunk[9] in the framing loop or from writing or printing the message.
C9_OneBitPerBlock ==
  (SamplesRead /\ opt.filter_length > 0) =>
    /\ pc \in {"frames", "done", "panic"} =>
         Len(bits) = CeilDiv(Len(samples), opt.filter_length)
    /\ pc \in {"chunks", "reset"} => Len(bits) = ci
    /\ pc \in {"process", "compare"} =>
         Len(bits) = ci - 1 /\ chunk = BlockOf(ci, opt.filter_length)
    /\ \A i \in 1..Len(bits) : bits[i] = FreshBit(BlockOf(i, opt.filter_length))
    /\ pc = "panic" => err \in OutputErrors \cup {IndexOutOfBounds}

\* C9 witness: the block loop is over, the last block was short, and the
\* bits hold a 0 and a 1
C9_Witness ==
  /\ pc = "frames"
  /\ opt.filter_length > 0
  /\ Len(samples) % opt.filter_length # 0
  /\ Len(bits) >= 2
  /\ \E i \in 1..Len(bits) : bits[i] = 0
  /\ \E i \in 1..Len(bits) : bits[i] = 1

\* C10: process does not clear the accumulators: after any calls of process
\* with no reset in between the filter equals the filter as constructed or
\* last reset after one process of the concatenated samples, and k, n,
\* coeff, sin and cos are unchanged.
C10_ProcessConcatenates ==
  /\ mark = process(space, samples)
  /\ mark.k = space.k /\ mark.n = space.n /\ mark.coeff = space.coeff
  /\ mark.sin = space.sin /\ mark.cos = space.cos

\* C10 witness: two calls of two samples each, the second starting from
\* non-zero accumulators and ending in a state that processing the second
\* piece alone does not give
C10_Witness ==
  /\ ci = 2
  /\ Len(samples) = 4
  /\ Len(chunk) = 2
  /\ ~IsZero(process(space, SubSeq(samples, 1, 2)).q1)
  /\ mark.q1 # process(space, chunk).q1

====
